---- MODULE Spec2Model ----
(***************************************************************************)
(* A model of rustfst: weighted finite-state transducers (VectorFst over   *)
(* the Tropical semiring), the algorithms reverse, rm_final_epsilon and    *)
(* push_weights, and the SymbolTable.                                      *)
(***************************************************************************)
EXTENDS Integers, Sequences, FiniteSets, TLC

VARIABLES
    fst,      \* the FST the program holds
    prev,     \* the FST the last algorithm was applied to
    orig,     \* the FST the first algorithm was applied to
    ops,      \* the algorithms applied so far, in order
    mid,      \* rm_final_epsilon: the FST as it was before the final connect
    status,   \* the Result of the last algorithm: "ok" or the error
    call,     \* the last checked operation: its state id and what it returned
    symt,     \* the SymbolTable
    symt0,    \* the SymbolTable before the last operation on it
    sop,      \* the last operation on the SymbolTable
    sym,      \* add_symbol: the symbol that was added
    ret,      \* add_symbol: the label that was returned
    cst,      \* the ConstFst, the last operation on it and its result
    bw,       \* BooleanWeight: the operands, the operation and its result
    cli,      \* arcsort_cli: its arguments, position, files and result
    cache     \* the CacheState now and before the last operation, and the operations so far

fstVars == <<fst, prev, orig, ops, mid, status, call>>
symtVars == <<symt, symt0, sop, sym, ret>>
vars == <<fst, prev, orig, ops, mid, status, call, symt, symt0, sop, sym, ret, cst, bw, cli, cache>>
notFstVars == <<symt, symt0, sop, sym, ret, cst, bw, cli, cache>>
notSymtVars == <<fst, prev, orig, ops, mid, status, call, cst, bw, cli, cache>>

(***************************************************************************)
(* Bounds of the model.                                                    *)
(***************************************************************************)
\* reverse: at most MaxRevStates states, and MaxRevSize states and transitions.
MaxRevStates == 2
MaxRevSize == 4
\* rm_final_epsilon: at most MaxRmStates states, MaxRmSize states and transitions.
MaxRmStates == 3
MaxRmSize == 5
\* push_weights: at most MaxPushStates states, MaxPushSize states and transitions.
MaxPushStates == 3
MaxPushSize == 5

(***************************************************************************)
(* Option<T>: None is the empty sequence, Some(x) the one-element sequence.*)
(***************************************************************************)
None == <<>>
Some(x) == <<x>>
IsSome(o) == o # <<>>
Unwrap(o) == o[1]

(***************************************************************************)
(* Labels.  EPS_LABEL is the reserved label 0.                             *)
(***************************************************************************)
EPS_LABEL == 0

(***************************************************************************)
(* The Tropical semiring (min, +) on the naturals and +infinity.           *)
(***************************************************************************)
Infinity == 1000
Zero == Infinity
One == 0
IsZero(a) == a = Zero
Plus(a, b) == IF a <= b THEN a ELSE b
Times(a, b) == IF IsZero(a) \/ IsZero(b) THEN Zero ELSE a + b
WReverse(w) == w


(***************************************************************************)
(* Transitions and the VectorFst.  State s of the program is states[s+1].  *)
(***************************************************************************)
Tr(i, o, w, n) == [ilabel |-> i, olabel |-> o, weight |-> w, nextstate |-> n]

EmptyFst == [start |-> None, states |-> <<>>]
NumStates(f) == Len(f.states)
StateIds(f) == 0 .. (NumStates(f) - 1)
FinalWeight(f, s) == f.states[s + 1].final_weight
Trs(f, s) == f.states[s + 1].trs
IsFinal(f, s) == IsSome(FinalWeight(f, s))

RECURSIVE SumLens(_, _)
SumLens(states, k) ==
    IF k = 0 THEN 0 ELSE Len(states[k].trs) + SumLens(states, k - 1)
NumTrsTotal(f) == SumLens(f.states, NumStates(f))
NumFinals(f) == Cardinality({s \in StateIds(f) : IsFinal(f, s)})

(***************************************************************************)
(* Helpers on sequences and on the transitions of an FST.                  *)
(***************************************************************************)
Count(seq, x) == Cardinality({k \in DOMAIN seq : seq[k] = x})
Range(seq) == {seq[k] : k \in DOMAIN seq}
\* The places of the transitions of f: <<source state, index>>.
TrPlaces(f) == UNION {{<<s, k>> : k \in DOMAIN Trs(f, s)} : s \in StateIds(f)}
TrAt(f, p) == Trs(f, p[1])[p[2]]

(***************************************************************************)
(* MutableFst: the operations that build an FST.                           *)
(***************************************************************************)
NewState == [final_weight |-> None, trs |-> <<>>]
AddStateTo(f) == [f EXCEPT !.states = Append(@, NewState)]
SetStartOf(f, s) == [f EXCEPT !.start = Some(s)]
SetFinalOf(f, s, w) == [f EXCEPT !.states[s + 1].final_weight = Some(w)]
AddTrTo(f, s, tr) == [f EXCEPT !.states[s + 1].trs = Append(@, tr)]
SetTrsOf(f, s, trs) == [f EXCEPT !.states[s + 1].trs = trs]

RECURSIVE AddStatesTo(_, _)
AddStatesTo(f, n) == IF n = 0 THEN f ELSE AddStatesTo(AddStateTo(f), n - 1)

Building == ops = <<>>

Size(f) == NumStates(f) + NumTrsTotal(f)

AddState(maxStates, maxSize) ==
    /\ Building
    /\ NumStates(fst) < maxStates
    /\ Size(fst) < maxSize
    /\ fst' = AddStateTo(fst)
    /\ UNCHANGED <<prev, orig, ops, mid, status, call>>
    /\ UNCHANGED notFstVars

SetStart ==
    /\ Building
    /\ \E s \in StateIds(fst) : fst' = SetStartOf(fst, s)
    /\ UNCHANGED <<prev, orig, ops, mid, status, call>>
    /\ UNCHANGED notFstVars

SetFinal(weights) ==
    /\ Building
    /\ \E s \in StateIds(fst), w \in weights : fst' = SetFinalOf(fst, s, w)
    /\ UNCHANGED <<prev, orig, ops, mid, status, call>>
    /\ UNCHANGED notFstVars

AddTr(labels, weights, maxSize) ==
    /\ Building
    /\ Size(fst) < maxSize
    /\ \E s \in StateIds(fst), i \in labels, o \in labels,
          w \in weights, n \in StateIds(fst) :
            fst' = AddTrTo(fst, s, Tr(i, o, w, n))
    /\ UNCHANGED <<prev, orig, ops, mid, status, call>>
    /\ UNCHANGED notFstVars

(***************************************************************************)
(* reverse                                                                 *)
(***************************************************************************)
\* The final weight reverse gives output state os while visiting input state is.
ReverseFinalBug(ifst, is) == IF Some(is + 1) = ifst.start THEN Some(One) ELSE None
ReverseFinal(ifst, is) == IF Some(is) = ifst.start THEN Some(One) ELSE None

\* The transition pushed on the superinitial state for a final input state.
ReverseEpsTrBug(w, os) == Tr(EPS_LABEL, EPS_LABEL, WReverse(w), os - 1)
ReverseEpsTr(w, os) == Tr(EPS_LABEL, EPS_LABEL, WReverse(w), os)

\* The transition pushed on state nextstate + 1 for an input transition of is.
ReverseTrBug(iarc, os) == Tr(iarc.olabel, iarc.ilabel, WReverse(iarc.weight), os)
ReverseTr(iarc, os) == Tr(iarc.ilabel, iarc.olabel, WReverse(iarc.weight), os)

\* The inner loop over the transitions of one input state, from index k on.
RECURSIVE ReversePushTrs(_, _, _, _)
ReversePushTrs(iarcs, k, os, states_trs) ==
    IF k > Len(iarcs) THEN states_trs
    ELSE LET iarc == iarcs[k]
             nos == iarc.nextstate + 1
         IN ReversePushTrs(iarcs, k + 1, os,
                [states_trs EXCEPT ![nos + 1] = Append(@, ReverseTr(iarc, os))])

\* The loop over the input states, from state is on: the vectors of transitions
\* and the final weights of the output states.
RECURSIVE ReverseLoop(_, _, _)
ReverseLoop(ifst, is, acc) ==
    IF is >= NumStates(ifst) THEN acc
    ELSE LET os == is + 1
             fin == ReverseFinal(ifst, is)
             ofst1 == IF IsSome(fin)
                        THEN [acc.ofst EXCEPT !.states[os + 1].final_weight = fin]
                        ELSE acc.ofst
             weight == FinalWeight(ifst, is)
             st0 == IF IsSome(weight)
                      THEN [acc.states_trs EXCEPT
                              ![1] = Append(@, ReverseEpsTr(Unwrap(weight), os))]
                      ELSE acc.states_trs
             st1 == ReversePushTrs(Trs(ifst, is), 1, os, st0)
         IN ReverseLoop(ifst, is + 1, [ofst |-> ofst1, states_trs |-> st1])

RECURSIVE SetAllTrs(_, _, _)
SetAllTrs(ofst, states_trs, k) ==
    IF k > Len(states_trs) THEN ofst
    ELSE SetAllTrs(SetTrsOf(ofst, k - 1, states_trs[k]), states_trs, k + 1)

Reverse(ifst) ==
    LET ofst0 == AddStatesTo(AddStateTo(EmptyFst), NumStates(ifst))
        ostart == 0
        acc == ReverseLoop(ifst, 0,
                   [ofst |-> ofst0,
                    states_trs |-> [q \in 1 .. (NumStates(ifst) + 1) |-> <<>>]])
    IN SetStartOf(SetAllTrs(acc.ofst, acc.states_trs, 1), ostart)

MaxReverse == 2

DoReverse ==
    /\ Len(ops) < MaxReverse
    /\ \A k \in DOMAIN ops : ops[k] = "reverse"
    /\ fst' = Reverse(fst)
    /\ prev' = fst
    /\ orig' = IF ops = <<>> THEN fst ELSE orig
    /\ ops' = Append(ops, "reverse")
    /\ status' = "ok"
    /\ UNCHANGED <<mid, call>>
    /\ UNCHANGED notFstVars

(***************************************************************************)
(* SymbolTable: label_to_symbol and symbol_to_label are HashMaps, modelled *)
(* as functions on their sets of keys.                                     *)
(***************************************************************************)
EPS_SYMBOL == "<eps>"
Symbols == {EPS_SYMBOL, "a", "b"}
MaxSymbols == 5
MaxOtherAdds == 1

\* HashMap::entry(k).or_insert(v)
OrInsertBug(m, k, v) == IF k \in DOMAIN m THEN [m EXCEPT ![k] = v] ELSE m @@ (k :> v)
OrInsert(m, k, v) == IF k \in DOMAIN m THEN m ELSE m @@ (k :> v)
EmptyMap == << >>

\* add_symbol: the table after the call.
AddSymbol(t, s) ==
    LET label == t.num_symbols
    IN [label_to_symbol |-> OrInsert(t.label_to_symbol, label, s),
        symbol_to_label |-> OrInsert(t.symbol_to_label, s, label),
        num_symbols |-> t.num_symbols + 1]

\* add_symbol: the label that is returned.
AddSymbolLabel(t, s) == t.num_symbols

SymtNew ==
    AddSymbol([label_to_symbol |-> EmptyMap, symbol_to_label |-> EmptyMap,
               num_symbols |-> 0], EPS_SYMBOL)

SymtLen(t) == t.num_symbols
GetLabel(t, s) ==
    IF s \in DOMAIN t.symbol_to_label THEN Some(t.symbol_to_label[s]) ELSE None
GetSymbol(t, l) ==
    IF l \in DOMAIN t.label_to_symbol THEN Some(t.label_to_symbol[l]) ELSE None
SymtSymbols(t) == DOMAIN t.symbol_to_label
SymtLabels(t) == DOMAIN t.label_to_symbol

RECURSIVE AddSymbols(_, _, _)
\* add_symbol for each symbol of the sequence ss, from index k on.
AddSymbols(t, ss, k) ==
    IF k > Len(ss) THEN t ELSE AddSymbols(AddSymbol(t, ss[k]), ss, k + 1)

\* The orders in which a HashMap may yield the keys ks.
Orders(ks) ==
    {q \in [1 .. Cardinality(ks) -> ks] : \A i, j \in DOMAIN q : i # j => q[i] # q[j]}

\* The tables add_table is given: symt![...] of at most MaxOtherAdds symbols.
OtherTables ==
    {AddSymbols(SymtNew, ss, 1) :
        ss \in UNION {[1 .. n -> Symbols] : n \in 0 .. MaxOtherAdds}}

SymtAddSymbol ==
    /\ SymtLen(symt) < MaxSymbols
    /\ \E s \in Symbols :
          /\ symt' = AddSymbol(symt, s)
          /\ ret' = AddSymbolLabel(symt, s)
          /\ sym' = s
    /\ symt0' = symt
    /\ sop' = "add_symbol"
    /\ UNCHANGED notSymtVars

SymtAddTable ==
    /\ \E other \in OtherTables :
          /\ SymtLen(symt) + Cardinality(SymtSymbols(other)) <= MaxSymbols
          /\ \E order \in Orders(SymtSymbols(other)) :
                symt' = AddSymbols(symt, order, 1)
    /\ symt0' = symt
    /\ sop' = "add_table"
    /\ UNCHANGED <<sym, ret>>
    /\ UNCHANGED notSymtVars

\* HashMap::insert
Insert(m, k, v) == IF k \in DOMAIN m THEN [m EXCEPT ![k] = v] ELSE m @@ (k :> v)

Min(S) == CHOOSE x \in S : \A y \in S : x <= y

RECURSIVE SortedLabels(_)
\* iter().sorted_by_key(|k| k.0): the labels in ascending order.
SortedLabels(ls) ==
    IF ls = {} THEN <<>> ELSE <<Min(ls)>> \o SortedLabels(ls \ {Min(ls)})

\* write_symt_text!: one line SYMBOL<TAB>LABEL per label, in ascending label
\* order.  A line is the pair of its two fields.
Text(t) ==
    LET ls == SortedLabels(SymtLabels(t))
    IN [k \in DOMAIN ls |-> <<t.label_to_symbol[ls[k]], ls[k]>>]

\* ParsedTextSymt::from_string: the pairs (symbol, label) of the lines, in order.
ParsedTextSymt(text) == [pairs |-> text]

RECURSIVE FromPairs(_, _, _)
\* The loop of from_parsed_symt_text, from index k on.
FromPairs(pairs, k, t) ==
    IF k > Len(pairs) THEN t
    ELSE FromPairs(pairs, k + 1,
             [t EXCEPT !.label_to_symbol = Insert(@, pairs[k][2], pairs[k][1]),
                       !.symbol_to_label = Insert(@, pairs[k][1], pairs[k][2])])

FromParsedSymtText(parsed) ==
    FromPairs(parsed.pairs, 1,
              [label_to_symbol |-> EmptyMap, symbol_to_label |-> EmptyMap,
               num_symbols |-> Len(parsed.pairs)])

FromTextString(text) == FromParsedSymtText(ParsedTextSymt(text))

\* S.text() is written and read back with from_text_string.
SymtTextRoundTrip ==
    /\ sop # "from_text_string"
    /\ symt' = FromTextString(Text(symt))
    /\ symt0' = symt
    /\ sop' = "from_text_string"
    /\ UNCHANGED <<sym, ret>>
    /\ UNCHANGED notSymtVars

\* add_symbol on a table made by new() and add_symbol only.
SymtAddSymbolOnly ==
    /\ sop # "from_text_string"
    /\ SymtAddSymbol

InitSymt ==
    /\ symt = SymtNew
    /\ symt0 = SymtNew
    /\ sop = "new"
    /\ sym = EPS_SYMBOL
    /\ ret = 0

NextSymt == SymtAddSymbol \/ SymtAddTable

InitFst ==
    /\ call = [op |-> "none"]
    /\ fst = EmptyFst
    /\ prev = EmptyFst
    /\ orig = EmptyFst
    /\ ops = <<>>
    /\ mid = EmptyFst
    /\ status = "ok"

(***************************************************************************)
(* ConstFst: the states hold their final weight and the slice (pos, narcs) *)
(* of the one vector trs that holds their transitions.                     *)
(***************************************************************************)
Ok(x) == [ok |-> TRUE, val |-> x]
Err(e) == [ok |-> FALSE, err |-> e]

Skip(seq, n) == SubSeq(seq, n + 1, Len(seq))
Take(seq, n) == SubSeq(seq, 1, IF n < Len(seq) THEN n ELSE Len(seq))

RECURSIVE ToConstStates(_, _, _)
\* The ConstStates of the states of a VectorFst from index k on, the
\* transitions of the first of them stored from position pos on.
ToConstStates(states, k, pos) ==
    IF k > Len(states) THEN <<>>
    ELSE <<[final_weight |-> states[k].final_weight, pos |-> pos,
            narcs |-> Len(states[k].trs)]>>
         \o ToConstStates(states, k + 1, pos + Len(states[k].trs))

RECURSIVE ConcatTrs(_, _)
ConcatTrs(states, k) ==
    IF k > Len(states) THEN <<>> ELSE states[k].trs \o ConcatTrs(states, k + 1)

\* From<VectorFst<W>> for ConstFst<W>
ToConst(f) ==
    [states |-> ToConstStates(f.states, 1, 0), trs |-> ConcatTrs(f.states, 1),
     start |-> f.start]

ConstNumStates(c) == Len(c.states)
ConstFinalWeight(c, s) == c.states[s + 1].final_weight
ConstNumTrs(c, s) == c.states[s + 1].narcs

\* tr_range
TrRange(state) == (state.pos + 1) .. (state.pos + state.narcs)

\* trs[tr_range(state)]
ConstSlice(c, state) == [k \in 1 .. state.narcs |-> c.trs[state.pos + k]]

\* tr_iter
TrIter(c, state_id) ==
    IF state_id < Len(c.states)
      THEN Ok(ConstSlice(c, c.states[state_id + 1]))
      ELSE Err("NoSuchState")

\* fst_iter: the transitions of one item.
FstIterTrsBug(c, fst_state) == Take(c.trs, fst_state.narcs)
FstIterTrs(c, fst_state) == Take(Skip(c.trs, fst_state.pos), fst_state.narcs)

FstIter(c) ==
    [k \in DOMAIN c.states |->
        [state_id |-> k - 1,
         trs |-> FstIterTrs(c, c.states[k]),
         final_weight |-> c.states[k].final_weight,
         num_trs |-> c.states[k].narcs]]

\* fst_into_iter: what drain(0..narcs) takes from the transitions left.
Drained(rest, const_state) == Take(rest, const_state.narcs)

RECURSIVE DrainLoop(_, _, _)
\* The vectors of transitions of the states from index k on, taken from rest.
DrainLoop(c, k, rest) ==
    IF k > Len(c.states) THEN <<>>
    ELSE <<Drained(rest, c.states[k])>>
         \o DrainLoop(c, k + 1, Skip(rest, c.states[k].narcs))

FstIntoIter(c) ==
    LET trs == DrainLoop(c, 1, c.trs)
    IN [k \in DOMAIN c.states |->
          [state_id |-> k - 1,
           trs |-> trs[k],
           final_weight |-> c.states[k].final_weight,
           num_trs |-> c.states[k].narcs]]

InitConst == cst = [op |-> "none"]

\* The VectorFst is converted into a ConstFst.
DoIntoConst ==
    /\ Building
    /\ cst.op = "none"
    /\ cst' = [op |-> "into", fst |-> ToConst(fst)]
    /\ ops' = <<"into_const">>
    /\ UNCHANGED <<fst, prev, orig, mid, status, call, symt, symt0, sop, sym, ret, bw, cli, cache>>

DoFstIter ==
    /\ cst.op = "into"
    /\ cst' = [op |-> "fst_iter", fst |-> cst.fst, res |-> FstIter(cst.fst)]
    /\ UNCHANGED <<fstVars, symtVars, bw, cli, cache>>

DoFstIntoIter ==
    /\ cst.op = "into"
    /\ cst' = [op |-> "fst_into_iter", fst |-> cst.fst, res |-> FstIntoIter(cst.fst)]
    /\ UNCHANGED <<fstVars, symtVars, bw, cli, cache>>

\* tr_iter with a state id that exists or not.
DoTrIter ==
    /\ cst.op = "into"
    /\ \E state_id \in 0 .. (ConstNumStates(cst.fst) + 1) :
          cst' = [op |-> "tr_iter", fst |-> cst.fst, state_id |-> state_id,
                  res |-> TrIter(cst.fst, state_id)]
    /\ UNCHANGED <<fstVars, symtVars, bw, cli, cache>>

MaxConstStates == 3
MaxConstSize == 5
ConstLabels == {1, 2}
ConstTrWeights == {1}
ConstFinalWeights == {0, 2}

NextConst ==
    \/ AddState(MaxConstStates, MaxConstSize)
    \/ SetStart
    \/ SetFinal(ConstFinalWeights)
    \/ AddTr(ConstLabels, ConstTrWeights, MaxConstSize)
    \/ DoIntoConst
    \/ DoFstIter
    \/ DoFstIntoIter
    \/ DoTrIter

(***************************************************************************)
(* BooleanWeight: a weight is its value, a bool.                           *)
(***************************************************************************)
BoolNew(value) == value
BoolPlus(a, b) == BoolNew(a \/ b)
BoolTimesBug(a, b) == BoolNew(a # b)
BoolTimes(a, b) == BoolNew(a /\ b)
BoolZero == BoolNew(FALSE)
BoolOne == BoolNew(TRUE)
BoolValue(w) == w
\* add_mul_semiring!: the operators + and *.
BoolAdd(a, b) == BoolPlus(a, b)
BoolMul(a, b) == BoolTimes(a, b)

BoolOps == {"plus", "times", "add", "mul"}
BoolSlots == {"a", "b", "c"}

BoolApply(op, x, y) ==
    CASE op = "plus" -> BoolPlus(x, y)
      [] op = "times" -> BoolTimes(x, y)
      [] op = "add" -> BoolAdd(x, y)
      [] op = "mul" -> BoolMul(x, y)

InitBool == bw = [op |-> "none"]

\* Three weights are made with new.
BoolNewWeights ==
    /\ bw.op = "none"
    /\ \E a, b, c \in BOOLEAN :
          bw' = [op |-> "new", a |-> BoolNew(a), b |-> BoolNew(b), c |-> BoolNew(c)]
    /\ UNCHANGED <<fstVars, symtVars, cst, cli, cache>>

\* plus, times, + or * of two of the weights.
BoolOperate ==
    /\ bw.op # "none"
    /\ \E op \in BoolOps, x, y \in BoolSlots :
          bw' = [op |-> op, a |-> bw.a, b |-> bw.b, c |-> bw.c, lhs |-> x, rhs |-> y,
                 res |-> BoolApply(op, bw[x], bw[y])]
    /\ UNCHANGED <<fstVars, symtVars, cst, cli, cache>>

\* set_value: the result of the last operation is stored in one of the weights.
BoolSetValue ==
    /\ bw.op \in BoolOps
    /\ \E x \in BoolSlots :
          bw' = [op |-> "set_value", a |-> IF x = "a" THEN BoolValue(bw.res) ELSE bw.a,
                 b |-> IF x = "b" THEN BoolValue(bw.res) ELSE bw.b,
                 c |-> IF x = "c" THEN BoolValue(bw.res) ELSE bw.c]
    /\ UNCHANGED <<fstVars, symtVars, cst, cli, cache>>

NextBool == BoolNewWeights \/ BoolOperate \/ BoolSetValue
InitCli == cli = [pc |-> "none", steps |-> <<>>, out |-> None]

(***************************************************************************)
(* CacheState                                                              *)
(***************************************************************************)
CacheNew == [trs |-> <<>>, final_weight |-> None, expanded |-> FALSE, has_final |-> FALSE]

HasFinal(c) == c.has_final
Expanded(c) == c.expanded
MarkExpanded(c) == [c EXCEPT !.expanded = TRUE]
SetFinalWeightKeepsFlag(c, final_weight) ==
    [c EXCEPT !.final_weight = final_weight, !.has_final = IsSome(final_weight)]
SetFinalWeight(c, final_weight) ==
    [c EXCEPT !.final_weight = final_weight, !.has_final = TRUE]
CacheFinalWeight(c) == c.final_weight
PushTr(c, tr) == [c EXCEPT !.trs = Append(@, tr)]
\* Vec::reserve changes the capacity only, which no operation shows.
ReserveTrs(c, n) == c
CacheNumTrs(c) == Len(c.trs)

MaxCacheOps == 5
CacheTrs == {Tr(1, 1, 0, 0), Tr(2, 1, 1, 1)}
CacheWeights == {None, Some(0), Some(1)}

InitCache == cache = [st |-> CacheNew, before |-> CacheNew, log |-> <<>>]

CacheDone(name, c) ==
    /\ Len(cache.log) < MaxCacheOps
    /\ cache' = [st |-> c, before |-> cache.st, log |-> Append(cache.log, name)]
    /\ UNCHANGED <<fstVars, symtVars, cst, bw, cli>>

CacheMarkExpanded == CacheDone("mark_expanded", MarkExpanded(cache.st))

CacheSetFinalWeight ==
    \E final_weight \in CacheWeights :
        CacheDone("set_final_weight", SetFinalWeight(cache.st, final_weight))

CachePushTr == \E tr \in CacheTrs : CacheDone("push_tr", PushTr(cache.st, tr))

CacheReserveTrs == \E n \in 0 .. 2 : CacheDone("reserve_trs", ReserveTrs(cache.st, n))

NextCache ==
    \/ CacheMarkExpanded
    \/ CacheSetFinalWeight
    \/ CachePushTr
    \/ CacheReserveTrs

Init == InitFst /\ InitSymt /\ InitConst /\ InitBool /\ InitCli /\ InitCache

SpecCache == Init /\ [][NextCache]_vars

SpecConst == Init /\ [][NextConst]_vars

SpecBool == Init /\ [][NextBool]_vars

SpecSymt == Init /\ [][NextSymt]_vars

NextSymtText == SymtAddSymbolOnly \/ SymtTextRoundTrip

SpecSymtText == Init /\ [][NextSymtText]_vars

RevLabels == {EPS_LABEL, 1, 2}
RevTrWeights == {0, 1}
RevFinalWeights == {0, 1, Zero}

NextReverse ==
    \/ AddState(MaxRevStates, MaxRevSize)
    \/ SetStart
    \/ SetFinal(RevFinalWeights)
    \/ AddTr(RevLabels, RevTrWeights, MaxRevSize)
    \/ DoReverse

SpecReverse == Init /\ [][NextReverse]_vars

(***************************************************************************)
(* SccVisitor's access and coaccess, del_states and connect.               *)
(***************************************************************************)
RECURSIVE CoaccessFrom(_, _)
CoaccessFrom(f, S) ==
    LET S2 == S \cup {s \in StateIds(f) :
                        \E k \in DOMAIN Trs(f, s) : Trs(f, s)[k].nextstate \in S}
    IN IF S2 = S THEN S ELSE CoaccessFrom(f, S2)

\* The states that can reach a final state by zero or more transitions.
Coaccess(f) == CoaccessFrom(f, {s \in StateIds(f) : IsFinal(f, s)})

RECURSIVE AccessFrom(_, _)
AccessFrom(f, S) ==
    LET S2 == S \cup {Trs(f, p[1])[p[2]].nextstate :
                        p \in {q \in TrPlaces(f) : q[1] \in S}}
    IN IF S2 = S THEN S ELSE AccessFrom(f, S2)

\* The states reachable from the start state.
Access(f) == IF f.start = None THEN {} ELSE AccessFrom(f, {Unwrap(f.start)})

RECURSIVE SelectIdx(_, _, _)
\* The elements of seq, from index k on, whose index is in keep.
SelectIdx(seq, k, keep) ==
    IF k > Len(seq) THEN <<>>
    ELSE (IF k \in keep THEN <<seq[k]>> ELSE <<>>) \o SelectIdx(seq, k + 1, keep)

\* del_states: the states of dstates and the transitions into them are
\* removed, and the surviving states are renumbered in order.
DelStates(f, dstates) ==
    LET NewId(s) == Cardinality({u \in StateIds(f) : u < s /\ u \notin dstates})
        KeepTr(t) == t.nextstate \notin dstates
        MapTr(t) == [t EXCEPT !.nextstate = NewId(t.nextstate)]
        MapTrs(trs) == LET kept == SelectSeq(trs, KeepTr)
                       IN [k \in 1 .. Len(kept) |-> MapTr(kept[k])]
        MapState(st) == [final_weight |-> st.final_weight, trs |-> MapTrs(st.trs)]
        kept == SelectIdx(f.states, 1, {k \in DOMAIN f.states : (k - 1) \notin dstates})
    IN [start |-> IF IsSome(f.start) /\ Unwrap(f.start) \notin dstates
                    THEN Some(NewId(Unwrap(f.start))) ELSE None,
        states |-> [k \in 1 .. Len(kept) |-> MapState(kept[k])]]

Connect(f) ==
    DelStates(f, {s \in StateIds(f) : s \notin Access(f) \/ s \notin Coaccess(f)})

(***************************************************************************)
(* rm_final_epsilon                                                        *)
(***************************************************************************)
\* The final states none of whose transitions leads to a coaccessible state.
RmFinalsBug(f, coaccess) ==
    {s \in StateIds(f) : IsFinal(f, s) /\ Trs(f, s) = <<>>}
RmFinals(f, coaccess) ==
    {s \in StateIds(f) :
        /\ IsFinal(f, s)
        /\ \A k \in DOMAIN Trs(f, s) : Trs(f, s)[k].nextstate \notin coaccess}

\* The transitions that are removed.
RmMatchesBug(tr, finals) ==
    tr.nextstate \in finals /\ tr.ilabel = EPS_LABEL
RmMatches(tr, finals) ==
    tr.nextstate \in finals /\ tr.ilabel = EPS_LABEL /\ tr.olabel = EPS_LABEL

\* The weight a removed transition adds to the final weight of its source.
RmAddedBug(f, tr) == Unwrap(FinalWeight(f, tr.nextstate))
RmAdded(f, tr) == Times(Unwrap(FinalWeight(f, tr.nextstate)), tr.weight)

\* del_trs_id_sorted_unchecked: the transitions at the indices are removed.
DelTrsIdSorted(trs, ids) ==
    SelectIdx(trs, 1, DOMAIN trs \ Range(ids))

\* The loop over the transitions of one state, from index idx on.
RECURSIVE RmScan(_, _, _, _, _)
RmScan(f, state, idx, finals, acc) ==
    IF idx > Len(Trs(f, state)) THEN acc
    ELSE LET tr == Trs(f, state)[idx]
         IN IF RmMatches(tr, finals)
              THEN LET weight == IF acc.weight = None
                                   THEN (IF IsSome(FinalWeight(f, state))
                                           THEN Unwrap(FinalWeight(f, state))
                                           ELSE Zero)
                                   ELSE Unwrap(acc.weight)
                   IN RmScan(f, state, idx + 1, finals,
                             [weight |-> Some(Plus(weight, RmAdded(f, tr))),
                              arcs_to_del |-> Append(acc.arcs_to_del, idx)])
              ELSE RmScan(f, state, idx + 1, finals, acc)

\* The new final weight of a state that lost transitions.
RmSetFinalBug(f, state, w) == SetFinalOf(f, state, w)
RmSetFinal(f, state, w) == IF ~IsZero(w) THEN SetFinalOf(f, state, w) ELSE f

\* The loop over the states, from state on; f is modified in place.
RECURSIVE RmLoop(_, _, _)
RmLoop(f, state, finals) ==
    IF state >= NumStates(f) THEN f
    ELSE LET acc == RmScan(f, state, 1, finals, [weight |-> None, arcs_to_del |-> <<>>])
             f1 == IF acc.arcs_to_del # <<>>
                     THEN LET f0 == RmSetFinal(f, state, Unwrap(acc.weight))
                          IN SetTrsOf(f0, state,
                                      DelTrsIdSorted(Trs(f0, state), acc.arcs_to_del))
                     ELSE f
         IN RmLoop(f1, state + 1, finals)

\* rm_final_epsilon up to its final connect.
RmFinalEpsilonLoop(ifst) == RmLoop(ifst, 0, RmFinals(ifst, Coaccess(ifst)))

RmFinalEpsilon(ifst) == Connect(RmFinalEpsilonLoop(ifst))

MaxRm == 2

DoRmFinalEpsilon ==
    /\ Len(ops) < MaxRm
    /\ \A k \in DOMAIN ops : ops[k] = "rm_final_epsilon"
    /\ fst' = RmFinalEpsilon(fst)
    /\ mid' = RmFinalEpsilonLoop(fst)
    /\ prev' = fst
    /\ orig' = IF ops = <<>> THEN fst ELSE orig
    /\ ops' = Append(ops, "rm_final_epsilon")
    /\ status' = "ok"
    /\ UNCHANGED call
    /\ UNCHANGED notFstVars

RmLabels == {EPS_LABEL, 1}
RmTrWeights == {1}
RmFinalWeights == {0, 2, Zero}

NextRm ==
    \/ AddState(MaxRmStates, MaxRmSize)
    \/ SetStart
    \/ SetFinal(RmFinalWeights)
    \/ AddTr(RmLabels, RmTrWeights, MaxRmSize)
    \/ DoRmFinalEpsilon

SpecRm == Init /\ [][NextRm]_vars

(***************************************************************************)
(* shortest_distance and reweight (Tropical semiring).                     *)
(***************************************************************************)
\* WeaklyDivisibleSemiring::divide, for a divisor that is not zero().
Divide(a, b) == IF IsZero(a) THEN Zero ELSE a - b

RECURSIVE SumWeights(_, _, _)
\* acc plus the weights of trs, from index k on.
SumWeights(trs, k, acc) ==
    IF k > Len(trs) THEN acc ELSE SumWeights(trs, k + 1, Plus(acc, trs[k].weight))

FinalOrZero(f, s) == IF IsFinal(f, s) THEN Unwrap(FinalWeight(f, s)) ELSE Zero

RECURSIVE RelaxOut(_, _, _, _)
\* acc plus the sum over trs, from index k on, of weight times d[nextstate].
RelaxOut(trs, k, d, acc) ==
    IF k > Len(trs) THEN acc
    ELSE RelaxOut(trs, k + 1, d, Plus(acc, Times(trs[k].weight, d[trs[k].nextstate + 1])))

RECURSIVE PlusAll(_)
PlusAll(ws) ==
    IF ws = {} THEN Zero
    ELSE LET w == CHOOSE x \in ws : TRUE IN Plus(w, PlusAll(ws \ {w}))

\* One round of relaxation of every state.
SdStep(f, d, reverse) ==
    IF reverse
      THEN [k \in 1 .. NumStates(f) |->
              RelaxOut(Trs(f, k - 1), 1, d, FinalOrZero(f, k - 1))]
      ELSE [k \in 1 .. NumStates(f) |->
              Plus(IF f.start = Some(k - 1) THEN One ELSE Zero,
                   PlusAll({Times(d[p[1] + 1], TrAt(f, p).weight) :
                              p \in {q \in TrPlaces(f) : TrAt(f, q).nextstate = k - 1}}))]

RECURSIVE SdIter(_, _, _, _)
\* Relaxation until the distances are stable, at most rounds more rounds.
SdIter(f, d, reverse, rounds) ==
    LET d2 == SdStep(f, d, reverse)
    IN IF d2 = d THEN [status |-> "ok", dist |-> d]
       ELSE IF rounds = 0 THEN [status |-> "NonConvergent", dist |-> d]
       ELSE SdIter(f, d2, reverse, rounds - 1)

\* reverse: the distance of each state to the final states; otherwise the
\* distance of each state from the start state.
ShortestDistance(f, reverse) ==
    SdIter(f, [k \in 1 .. NumStates(f) |-> Zero], reverse, NumStates(f))

\* The weight of a transition of state s after reweighting.
ReweightTr(tr, s, V, type) ==
    IF type = "ReweightToInitial"
      THEN [tr EXCEPT !.weight = Divide(Times(tr.weight, V[tr.nextstate + 1]), V[s + 1])]
      ELSE [tr EXCEPT !.weight = Divide(Times(V[s + 1], tr.weight), V[tr.nextstate + 1])]

ReweightFinal(w, s, V, type) ==
    IF type = "ReweightToInitial" THEN Divide(w, V[s + 1]) ELSE Times(V[s + 1], w)

\* Whether reweighting state s divides by zero().
ReweightDividesByZero(f, s, V, type) ==
    IF type = "ReweightToInitial"
      THEN IsZero(V[s + 1]) /\ (Trs(f, s) # <<>> \/ IsFinal(f, s))
      ELSE \E k \in DOMAIN Trs(f, s) : IsZero(V[Trs(f, s)[k].nextstate + 1])

ReweightState(st, s, V, type) ==
    [final_weight |-> IF IsSome(st.final_weight)
                        THEN Some(ReweightFinal(Unwrap(st.final_weight), s, V, type))
                        ELSE None,
     trs |-> [k \in 1 .. Len(st.trs) |-> ReweightTr(st.trs[k], s, V, type)]]

RECURSIVE ReweightLoop(_, _, _, _)
\* The loop over the states, from state s on; f is modified in place.
ReweightLoop(f, s, V, type) ==
    IF s >= NumStates(f) THEN [status |-> "ok", fst |-> f]
    ELSE IF ReweightDividesByZero(f, s, V, type)
      THEN [status |-> "DivisionByZero", fst |-> f]
      ELSE ReweightLoop([f EXCEPT !.states[s + 1] = ReweightState(@, s, V, type)],
                        s + 1, V, type)

\* Pushing to the initial state leaves the potential of the start state on it.
ReweightStart(f, V, type) ==
    IF type = "ReweightToInitial" /\ IsSome(f.start) /\ ~IsZero(V[Unwrap(f.start) + 1])
      THEN LET s == Unwrap(f.start)
               st == f.states[s + 1]
           IN [f EXCEPT !.states[s + 1] =
                 [final_weight |-> IF IsSome(st.final_weight)
                                     THEN Some(Times(V[s + 1], Unwrap(st.final_weight)))
                                     ELSE None,
                  trs |-> [k \in 1 .. Len(st.trs) |->
                             [st.trs[k] EXCEPT !.weight = Times(V[s + 1], @)]]]]
      ELSE f

Reweight(f, V, type) ==
    LET r == ReweightLoop(f, 0, V, type)
    IN IF r.status = "ok"
         THEN [status |-> "ok", fst |-> ReweightStart(r.fst, V, type)]
         ELSE r

(***************************************************************************)
(* push_weights                                                            *)
(***************************************************************************)
PushWeightsBug(f, reweight_type) ==
    LET dist == ShortestDistance(f, reweight_type = "ReweightToFinal")
    IN IF dist.status # "ok"
         THEN [status |-> dist.status, fst |-> f]
         ELSE Reweight(f, dist.dist, reweight_type)
PushWeights(f, reweight_type) ==
    LET dist == ShortestDistance(f, reweight_type = "ReweightToInitial")
    IN IF dist.status # "ok"
         THEN [status |-> dist.status, fst |-> f]
         ELSE Reweight(f, dist.dist, reweight_type)

ReweightTypes == {"ReweightToInitial", "ReweightToFinal"}

DoPushWeights ==
    /\ ops = <<>>
    /\ \E reweight_type \in ReweightTypes :
          /\ fst' = PushWeights(fst, reweight_type).fst
          /\ status' = PushWeights(fst, reweight_type).status
          /\ ops' = <<reweight_type>>
    /\ prev' = fst
    /\ orig' = fst
    /\ UNCHANGED <<mid, call>>
    /\ UNCHANGED notFstVars

PushLabels == {1}
PushTrWeights == {-1, 0, 1}
PushFinalWeights == {0, 1, Zero}

NextPush ==
    \/ AddState(MaxPushStates, MaxPushSize)
    \/ SetStart
    \/ SetFinal(PushFinalWeights)
    \/ AddTr(PushLabels, PushTrWeights, MaxPushSize)
    \/ DoPushWeights

SpecPush == Init /\ [][NextPush]_vars

(***************************************************************************)
(* Operations that are given a state id, which may not exist.              *)
(***************************************************************************)
StateExists(f, state_id) == state_id < NumStates(f)

\* set_start: "If the state_id doesn't exist an error is raised."
TrySetStartOf(f, state_id) ==
    IF StateExists(f, state_id)
      THEN [res |-> Ok(<<>>), fst |-> SetStartOf(f, state_id)]
      ELSE [res |-> Err("NoSuchState"), fst |-> f]

\* set_final: "If the state_id doesn't exist an error is raised."
TrySetFinalOf(f, state_id, w) ==
    IF StateExists(f, state_id)
      THEN [res |-> Ok(<<>>), fst |-> SetFinalOf(f, state_id, w)]
      ELSE [res |-> Err("NoSuchState"), fst |-> f]

\* add_arc: "An error is raised if the state source doesn't exist."
TryAddArcTo(f, source, arc) ==
    IF StateExists(f, source)
      THEN [res |-> Ok(<<>>), fst |-> AddTrTo(f, source, arc)]
      ELSE [res |-> Err("NoSuchState"), fst |-> f]

\* del_state: "An error is raised if the state state_id doesn't exist."
TryDelStateOf(f, state_id) ==
    IF StateExists(f, state_id)
      THEN [res |-> Ok(<<>>), fst |-> DelStates(f, {state_id})]
      ELSE [res |-> Err("NoSuchState"), fst |-> f]

\* final_weight returns an Option<W>, which has no error: the value it
\* returns is None when there is no such state.
FinalWeightOf(f, state_id) ==
    IF StateExists(f, state_id) THEN Ok(FinalWeight(f, state_id)) ELSE Ok(None)

\* The state ids the operations are given: those of the FST and two more.
StateIdArgs(f) == 0 .. (NumStates(f) + 1)

TryDone(name, state_id, r) ==
    /\ fst' = r.fst
    /\ call' = [op |-> name, state_id |-> state_id, res |-> r.res]
    /\ prev' = fst
    /\ ops' = <<name>>
    /\ UNCHANGED <<orig, mid, status>>
    /\ UNCHANGED notFstVars

TrySetStart ==
    /\ Building
    /\ \E state_id \in StateIdArgs(fst) :
          TryDone("set_start", state_id, TrySetStartOf(fst, state_id))

TrySetFinal(weights) ==
    /\ Building
    /\ \E state_id \in StateIdArgs(fst), w \in weights :
          TryDone("set_final", state_id, TrySetFinalOf(fst, state_id, w))

TryAddArc(labels, weights) ==
    /\ Building
    /\ \E source \in StateIdArgs(fst), i \in labels, w \in weights, n \in StateIds(fst) :
          TryDone("add_arc", source, TryAddArcTo(fst, source, Tr(i, i, w, n)))

TryDelState ==
    /\ Building
    /\ \E state_id \in StateIdArgs(fst) :
          TryDone("del_state", state_id, TryDelStateOf(fst, state_id))

TryFinalWeight ==
    /\ Building
    /\ \E state_id \in StateIdArgs(fst) :
          TryDone("final_weight", state_id,
                  [res |-> FinalWeightOf(fst, state_id), fst |-> fst])

MaxErrStates == 2
MaxErrSize == 4
ErrLabels == {1}
ErrTrWeights == {1}
ErrFinalWeights == {0, 2}

NextErr ==
    \/ AddState(MaxErrStates, MaxErrSize)
    \/ SetStart
    \/ SetFinal(ErrFinalWeights)
    \/ AddTr(ErrLabels, ErrTrWeights, MaxErrSize)
    \/ TrySetStart
    \/ TrySetFinal(ErrFinalWeights)
    \/ TryAddArc(ErrLabels, ErrTrWeights)
    \/ TryDelState
    \/ TryFinalWeight
    \/ DoIntoConst
    \/ DoTrIter

SpecErr == Init /\ [][NextErr]_vars

(***************************************************************************)
(* arc_sort                                                                *)
(***************************************************************************)
\* The key a comparator orders the transitions by.
SortKey(cmp, tr) ==
    IF cmp = "ilabel_compare"
      THEN <<tr.ilabel, tr.olabel, tr.nextstate>>
      ELSE <<tr.olabel, tr.ilabel, tr.nextstate>>

\* Lexicographic order of two keys: "Less", "Equal" or "Greater".
KeyCompare(a, b) ==
    IF a[1] # b[1] THEN (IF a[1] < b[1] THEN "Less" ELSE "Greater")
    ELSE IF a[2] # b[2] THEN (IF a[2] < b[2] THEN "Less" ELSE "Greater")
    ELSE IF a[3] # b[3] THEN (IF a[3] < b[3] THEN "Less" ELSE "Greater")
    ELSE "Equal"

Compare(cmp, a, b) == KeyCompare(SortKey(cmp, a), SortKey(cmp, b))

RECURSIVE InsertSorted(_, _, _, _)
\* tr is put into the sorted sequence at or after index k, behind every
\* transition that does not compare greater than it.
InsertSorted(cmp, sorted, k, tr) ==
    IF k > Len(sorted) THEN Append(sorted, tr)
    ELSE IF Compare(cmp, sorted[k], tr) = "Greater"
           THEN SubSeq(sorted, 1, k - 1) \o <<tr>> \o SubSeq(sorted, k, Len(sorted))
           ELSE InsertSorted(cmp, sorted, k + 1, tr)

RECURSIVE StableSort(_, _, _, _)
\* The transitions of trs from index k on are inserted into sorted.
StableSort(cmp, trs, k, sorted) ==
    IF k > Len(trs) THEN sorted
    ELSE StableSort(cmp, trs, k + 1, InsertSorted(cmp, sorted, 1, trs[k]))

\* arc_sort: every state's transitions are sorted.
ArcSort(f, cmp) ==
    [f EXCEPT !.states =
        [k \in DOMAIN f.states |->
            [f.states[k] EXCEPT !.trs = StableSort(cmp, f.states[k].trs, 1, <<>>)]]]

\* arcsort_cli: the comparator of a sort_type.
ChooseCmpBug(sort_type) ==
    IF sort_type = "ilabel" THEN Ok("olabel_compare")
    ELSE IF sort_type = "olabel" THEN Ok("ilabel_compare")
    ELSE Err("Unknow sort_type")
ChooseCmpAny(sort_type) ==
    IF sort_type = "olabel" THEN Ok("olabel_compare") ELSE Ok("ilabel_compare")
ChooseCmp(sort_type) ==
    IF sort_type = "ilabel" THEN Ok("ilabel_compare")
    ELSE IF sort_type = "olabel" THEN Ok("olabel_compare")
    ELSE Err("Unknow sort_type")

MaxSort == 2

\* arc_sort with the comparator of a sort_type; a second time with the same.
DoArcSort ==
    /\ Len(ops) < MaxSort
    /\ \A k \in DOMAIN ops : ops[k] = "arc_sort"
    /\ \E sort_type \in {"ilabel", "olabel"} :
          /\ ops # <<>> => sort_type = call.sort_type
          /\ fst' = ArcSort(fst, ChooseCmp(sort_type).val)
          /\ call' = [op |-> "arc_sort", sort_type |-> sort_type]
    /\ prev' = fst
    /\ orig' = IF ops = <<>> THEN fst ELSE orig
    /\ ops' = Append(ops, "arc_sort")
    /\ UNCHANGED <<mid, status>>
    /\ UNCHANGED notFstVars

MaxSortStates == 2
MaxSortSize == 5
SortLabels == {1, 2}
SortTrWeights == {0, 1}
SortFinalWeights == {0}

NextSort ==
    \/ AddState(MaxSortStates, MaxSortSize)
    \/ SetStart
    \/ SetFinal(SortFinalWeights)
    \/ AddTr(SortLabels, SortTrWeights, MaxSortSize)
    \/ DoArcSort

SpecSort == Init /\ [][NextSort]_vars

(***************************************************************************)
(* arcsort_cli(path_in, sort_type, path_out), one action for each of its   *)
(* steps.  cli.pc is the step to do next, cli.steps the steps done,        *)
(* cli.file the content of path_in (None when it cannot be read) and       *)
(* cli.out the content of path_out (None as long as it is not written).    *)
(***************************************************************************)
SortTypes == {"ilabel", "olabel", "nextstate"}

\* VectorFst::read(path_in)
ReadFst(file) == IF IsSome(file) THEN Ok(Unwrap(file)) ELSE Err("InvalidFormat")

\* What is left of the call after an error: it returns it.
CliFail(step, e) ==
    [cli EXCEPT !.pc = "done", !.steps = Append(@, step), !.res = Err(e)]

\* The call: the FST that was built is the content of path_in, or path_in
\* cannot be read.
CliCall ==
    /\ Building
    /\ cli.pc = "none"
    /\ \E sort_type \in SortTypes, readable \in BOOLEAN :
          cli' = [pc |-> "read", steps |-> <<>>, out |-> None,
                  sort_type |-> sort_type,
                  file |-> IF readable THEN Some(fst) ELSE None,
                  res |-> None]
    /\ ops' = <<"arcsort_cli">>
    /\ UNCHANGED <<fst, prev, orig, mid, status, call, symtVars, cst, bw, cache>>

CliRead ==
    /\ cli.pc = "read"
    /\ LET r == ReadFst(cli.file)
       IN cli' = IF r.ok
                   THEN [pc |-> "choose", steps |-> Append(cli.steps, "read"),
                         out |-> cli.out, sort_type |-> cli.sort_type,
                         file |-> cli.file, res |-> cli.res, fst |-> r.val]
                   ELSE CliFail("read", r.err)
    /\ UNCHANGED <<fstVars, symtVars, cst, bw, cache>>

CliChoose ==
    /\ cli.pc = "choose"
    /\ LET r == ChooseCmp(cli.sort_type)
       IN cli' = IF r.ok
                   THEN [pc |-> "sort", steps |-> Append(cli.steps, "choose"),
                         out |-> cli.out, sort_type |-> cli.sort_type,
                         file |-> cli.file, res |-> cli.res, fst |-> cli.fst,
                         cmp |-> r.val]
                   ELSE CliFail("choose", r.err)
    /\ UNCHANGED <<fstVars, symtVars, cst, bw, cache>>

\* arc_sort(&mut fst, cmp)?, which returns a Result.
CliSort ==
    /\ cli.pc = "sort"
    /\ \E sorted \in BOOLEAN :
          cli' = IF sorted
                   THEN [cli EXCEPT !.pc = "write", !.steps = Append(@, "sort"),
                                    !.fst = ArcSort(@, cli.cmp)]
                   ELSE CliFail("sort", "arc_sort")
    /\ UNCHANGED <<fstVars, symtVars, cst, bw, cache>>

\* fst.write(path_out), which succeeds or fails with an I/O error.
CliWrite ==
    /\ cli.pc = "write"
    /\ \E writable \in BOOLEAN :
          cli' = IF writable
                   THEN [cli EXCEPT !.pc = "done", !.steps = Append(@, "write"),
                                    !.out = Some(cli.fst), !.res = Ok(<<>>)]
                   ELSE CliFail("write", "Io")
    /\ UNCHANGED <<fstVars, symtVars, cst, bw, cache>>

MaxCliStates == 2
MaxCliSize == 4
CliLabels == {1, 2}
CliTrWeights == {1}
CliFinalWeights == {0}

NextCli ==
    \/ AddState(MaxCliStates, MaxCliSize)
    \/ SetStart
    \/ SetFinal(CliFinalWeights)
    \/ AddTr(CliLabels, CliTrWeights, MaxCliSize)
    \/ CliCall
    \/ CliRead
    \/ CliChoose
    \/ CliSort
    \/ CliWrite

SpecCli == Init /\ [][NextCli]_vars

(***************************************************************************)
(* MutableFst::add_fst                                                     *)
(***************************************************************************)
\* First pass: one add_state per state of fst_to_add, in the order of
\* states_iter; r is the pair of the FST and of mapping_states so far.
RECURSIVE AddFstStates(_, _, _)
AddFstStates(r, fst_to_add, old_state_id) ==
    IF old_state_id >= NumStates(fst_to_add) THEN r
    ELSE LET new_state_id == NumStates(r.fst)
         IN AddFstStates([fst |-> AddStateTo(r.fst),
                          mapping |-> r.mapping @@ (old_state_id :> new_state_id)],
                         fst_to_add, old_state_id + 1)

AddFstArcKeepsNextstate(mapping_states, old_arc) ==
    Tr(old_arc.ilabel, old_arc.olabel, old_arc.weight, old_arc.nextstate)
AddFstArc(mapping_states, old_arc) ==
    Tr(old_arc.ilabel, old_arc.olabel, old_arc.weight, mapping_states[old_arc.nextstate])

\* Second pass: the transitions of every state, in the order of arcs_iter.
RECURSIVE AddFstArcs(_, _, _, _, _)
AddFstArcs(f, mapping_states, fst_to_add, old_state_id, k) ==
    IF old_state_id >= NumStates(fst_to_add) THEN f
    ELSE IF k > Len(Trs(fst_to_add, old_state_id))
         THEN AddFstArcs(f, mapping_states, fst_to_add, old_state_id + 1, 1)
         ELSE AddFstArcs(AddTrTo(f, mapping_states[old_state_id],
                                 AddFstArc(mapping_states, Trs(fst_to_add, old_state_id)[k])),
                         mapping_states, fst_to_add, old_state_id, k + 1)

AddFst(f, fst_to_add) ==
    LET r == AddFstStates([fst |-> f, mapping |-> <<>>], fst_to_add, 0)
    IN [fst |-> AddFstArcs(r.fst, r.mapping, fst_to_add, 0, 1), ret |-> Ok(r.mapping)]

MaxAddStates == 2
MaxAddSize == 3
MaxOtherStates == 2
MaxOtherTrs == 2
AddLabels == {1}
AddTrWeights == {1}
AddFinalWeights == {0}

\* The FSTs given to add_fst.
OtherTrs(n) ==
    UNION {[1 .. len -> {Tr(1, 2, 1, t) : t \in 0 .. (n - 1)}] : len \in 0 .. MaxOtherTrs}
OtherFsts ==
    UNION {[start : IF n = 0 THEN {None} ELSE {None, Some(n - 1)},
            states : [1 .. n -> [final_weight : {None, Some(0)}, trs : OtherTrs(n)]]] :
           n \in 0 .. MaxOtherStates}

DoAddFst ==
    /\ Building
    /\ \E fst_to_add \in OtherFsts :
          LET r == AddFst(fst, fst_to_add)
          IN /\ fst' = r.fst
             /\ call' = [op |-> "add_fst", other |-> fst_to_add, ret |-> r.ret]
    /\ prev' = fst
    /\ orig' = fst
    /\ ops' = <<"add_fst">>
    /\ status' = "ok"
    /\ UNCHANGED mid
    /\ UNCHANGED notFstVars

NextAddFst ==
    \/ AddState(MaxAddStates, MaxAddSize)
    \/ SetStart
    \/ SetFinal(AddFinalWeights)
    \/ AddTr(AddLabels, AddTrWeights, MaxAddSize)
    \/ DoAddFst

SpecAddFst == Init /\ [][NextAddFst]_vars

LastOp == IF ops = <<>> THEN "none" ELSE ops[Len(ops)]

(***************************************************************************)
(* The weighted language of an FST, on the string pairs of at most         *)
(* MaxStrLen labels a side: Lang(f) holds <<x, y, a>> when f transduces x  *)
(* to y with total weight a # zero(), a being the plus-sum (the minimum,   *)
(* in the Tropical semiring) over the accepting paths from the start state *)
(* of the times-product of the transition weights and the final weight.    *)
(* A configuration <<q, x, y, w>> is a state q reached from the start      *)
(* state reading x and writing y (epsilons removed) with weight w.         *)
(***************************************************************************)
MaxStrLen == 2

AppendLabel(x, l) == IF l = EPS_LABEL THEN x ELSE Append(x, l)

Successors(f, c) ==
    {d \in {<<TrAt(f, <<c[1], k>>).nextstate,
              AppendLabel(c[2], TrAt(f, <<c[1], k>>).ilabel),
              AppendLabel(c[3], TrAt(f, <<c[1], k>>).olabel),
              Times(c[4], TrAt(f, <<c[1], k>>).weight)>> : k \in DOMAIN Trs(f, c[1])} :
        Len(d[2]) <= MaxStrLen /\ Len(d[3]) <= MaxStrLen}

\* The plus-sum of the weights of equal keys: the least weight of each key.
PlusSum(cs, n) ==
    {c \in cs : \A d \in cs :
        (\A k \in 1 .. n : d[k] = c[k]) => Plus(c[n + 1], d[n + 1]) = c[n + 1]}

RECURSIVE Reach(_, _)
Reach(f, cs) ==
    LET next == PlusSum(cs \cup UNION {Successors(f, c) : c \in cs}, 3)
    IN IF next = cs THEN cs ELSE Reach(f, next)

Lang(f) ==
    IF f.start = None THEN {}
    ELSE LET cs == Reach(f, {<<Unwrap(f.start), <<>>, <<>>, One>>})
             acc == {<<c[2], c[3], Times(c[4], Unwrap(FinalWeight(f, c[1])))>> :
                        c \in {d \in cs : IsFinal(f, d[1])}}
         IN PlusSum({a \in acc : ~IsZero(a[3])}, 2)

RevStr(x) == [k \in 1 .. Len(x) |-> x[Len(x) + 1 - k]]

(***************************************************************************)
(* C1: reverse returns an FST with n+1 states whose start state is the     *)
(* superinitial state 0 (also when the input has no start state or no      *)
(* states); its only final state is istart+1, with final weight one(),     *)
(* when the input has a start state istart, and it has no final state when *)
(* the input has none.                                                     *)
(***************************************************************************)
C1_ReverseShape ==
    LastOp = "reverse" =>
        /\ NumStates(fst) = NumStates(prev) + 1
        /\ fst.start = Some(0)
        /\ \A q \in StateIds(fst) :
              FinalWeight(fst, q) =
                  IF IsSome(prev.start) /\ q = Unwrap(prev.start) + 1
                    THEN Some(One) ELSE None

C1_Witness ==
    /\ LastOp = "reverse"
    /\ Len(ops) = 1
    /\ NumStates(prev) = 2
    /\ prev.start = Some(1)
    /\ IsFinal(prev, 0)
    /\ FinalWeight(fst, 2) = Some(One)

\* reverse of an FST without states, and of one without a start state.
C1_WitnessEmpty ==
    /\ LastOp = "reverse"
    /\ NumStates(prev) = 0
    /\ NumStates(fst) = 1

(***************************************************************************)
(* C2: the transitions of reverse(F) are exactly: for each input           *)
(* transition s -(i,o,w)-> t one transition t+1 -(i,o,w.reverse())-> s+1,  *)
(* and for each input state s with a final weight w one transition         *)
(* (EPS, EPS, w.reverse(), s+1) leaving the superinitial state 0.  So the  *)
(* output has (input transitions + input final states) transitions, and    *)
(* every nextstate is a state of the output.                               *)
(***************************************************************************)
\* How many times the claim asks for transition r at output state q.
C2_Expected(q, r) ==
    Cardinality({p \in TrPlaces(prev) :
        /\ TrAt(prev, p).nextstate + 1 = q
        /\ r = [ilabel |-> TrAt(prev, p).ilabel,
                olabel |-> TrAt(prev, p).olabel,
                weight |-> WReverse(TrAt(prev, p).weight),
                nextstate |-> p[1] + 1]})
    + Cardinality({s \in StateIds(prev) :
        /\ q = 0
        /\ IsFinal(prev, s)
        /\ r = [ilabel |-> EPS_LABEL, olabel |-> EPS_LABEL,
                weight |-> WReverse(Unwrap(FinalWeight(prev, s))),
                nextstate |-> s + 1]})

C2_AllTrs(q) ==
    Range(Trs(fst, q))
    \cup {[ilabel |-> TrAt(prev, p).ilabel, olabel |-> TrAt(prev, p).olabel,
           weight |-> WReverse(TrAt(prev, p).weight), nextstate |-> p[1] + 1] :
             p \in TrPlaces(prev)}
    \cup {[ilabel |-> EPS_LABEL, olabel |-> EPS_LABEL,
           weight |-> WReverse(Unwrap(FinalWeight(prev, s))),
           nextstate |-> s + 1] : s \in {u \in StateIds(prev) : IsFinal(prev, u)}}

C2_ReverseTransitions ==
    LastOp = "reverse" =>
        /\ \A q \in StateIds(fst) : \A r \in C2_AllTrs(q) :
              Count(Trs(fst, q), r) = C2_Expected(q, r)
        /\ NumTrsTotal(fst) = NumTrsTotal(prev) + NumFinals(prev)
        /\ \A p \in TrPlaces(fst) : TrAt(fst, p).nextstate \in StateIds(fst)

C2_Witness ==
    /\ LastOp = "reverse"
    /\ Len(ops) = 1
    /\ NumTrsTotal(prev) = 2
    /\ NumFinals(prev) = 1
    /\ NumTrsTotal(fst) = 3
    /\ \E p \in TrPlaces(prev) :
          /\ TrAt(prev, p).ilabel # TrAt(prev, p).olabel
          /\ TrAt(prev, p).nextstate # p[1]

(***************************************************************************)
(* C3: if A transduces x to y with total weight a, then reverse(A)         *)
(* transduces reverse(x) to reverse(y) with total weight a.reverse(), and  *)
(* reverse(A) accepts no other pairs.                                      *)
(***************************************************************************)
C3_ReverseLanguage ==
    LastOp = "reverse" =>
        Lang(fst) = {<<RevStr(a[1]), RevStr(a[2]), WReverse(a[3])>> : a \in Lang(prev)}

C3_Witness ==
    /\ LastOp = "reverse"
    /\ \E a \in Lang(prev) : Len(a[1]) = 2 /\ a[1][1] # a[1][2] /\ a[3] # One
    /\ \E a \in Lang(fst) : Len(a[1]) = 2 /\ a[1][1] # a[1][2] /\ a[3] # One

(***************************************************************************)
(* C4: over a commutative semiring, reverse(reverse(F)) accepts the same   *)
(* weighted language as F, although it has two more states than F.         *)
(***************************************************************************)
C4_ReverseInvolution ==
    (Len(ops) = 2 /\ LastOp = "reverse") =>
        /\ Lang(fst) = Lang(orig)
        /\ NumStates(fst) = NumStates(orig) + 2

C4_Witness ==
    /\ Len(ops) = 2
    /\ LastOp = "reverse"
    /\ NumStates(orig) = 2
    /\ NumStates(fst) = 4
    /\ \E a \in Lang(fst) : Len(a[1]) = 2 /\ a[1][1] # a[1][2] /\ a[3] # One

(***************************************************************************)
(* C5: the weighted language accepted by F equals the weighted language    *)
(* accepted by F after rm_final_epsilon(F).                                *)
(***************************************************************************)
C5_RmPreservesLanguage ==
    LastOp = "rm_final_epsilon" => Lang(fst) = Lang(prev)

\* An epsilon:epsilon transition into a final state was removed, the weight
\* moved to its source, and the language is not empty.
C5_Witness ==
    /\ LastOp = "rm_final_epsilon"
    /\ Len(ops) = 1
    /\ NumTrsTotal(mid) < NumTrsTotal(prev)
    /\ NumStates(fst) < NumStates(prev)
    /\ \E a \in Lang(prev) : Len(a[1]) > 0 /\ a[3] > 1

(***************************************************************************)
(* C6: rm_final_epsilon is idempotent: applying it a second time to its    *)
(* own result changes nothing (same states, start, final weights and       *)
(* transitions), including on chains of epsilon:epsilon transitions        *)
(* through several final states.                                           *)
(***************************************************************************)
C6_RmIdempotent ==
    (Len(ops) = 2 /\ LastOp = "rm_final_epsilon") => fst = prev

(***************************************************************************)
(* C7: with F the final states of the input none of whose transitions      *)
(* leads to a coaccessible state, rm_final_epsilon, before its final       *)
(* connect, deletes exactly the transitions with ilabel = EPS and          *)
(* olabel = EPS whose nextstate is in F, keeping the others in order, and  *)
(* for every state s that lost a transition sets final[s] to (the input    *)
(* final[s], or zero()) plus the sum over the deleted s -(EPS,EPS,w)-> s'  *)
(* of final[s'] times w, on the input's final weights, unless that value   *)
(* is zero(), in which case final[s] is left as it was.                    *)
(***************************************************************************)
C7_F ==
    {s \in StateIds(prev) :
        /\ IsFinal(prev, s)
        /\ \A k \in DOMAIN Trs(prev, s) :
              Trs(prev, s)[k].nextstate \notin Coaccess(prev)}

C7_Deleted(t) ==
    t.ilabel = EPS_LABEL /\ t.olabel = EPS_LABEL /\ t.nextstate \in C7_F

C7_Kept(t) == ~C7_Deleted(t)

RECURSIVE C7_Sum(_, _, _)
\* acc plus the sum over the deleted transitions of trs, from index k on.
C7_Sum(trs, k, acc) ==
    IF k > Len(trs) THEN acc
    ELSE C7_Sum(trs, k + 1,
                IF C7_Deleted(trs[k])
                  THEN Plus(acc, Times(Unwrap(FinalWeight(prev, trs[k].nextstate)),
                                       trs[k].weight))
                  ELSE acc)

C7_NewFinal(s) ==
    LET own == IF IsFinal(prev, s) THEN Unwrap(FinalWeight(prev, s)) ELSE Zero
        v == C7_Sum(Trs(prev, s), 1, own)
    IN IF \E k \in DOMAIN Trs(prev, s) : C7_Deleted(Trs(prev, s)[k])
         THEN (IF IsZero(v) THEN FinalWeight(prev, s) ELSE Some(v))
         ELSE FinalWeight(prev, s)

C7_RmBeforeConnect ==
    LastOp = "rm_final_epsilon" =>
        /\ NumStates(mid) = NumStates(prev)
        /\ mid.start = prev.start
        /\ \A s \in StateIds(prev) :
              /\ Trs(mid, s) = SelectSeq(Trs(prev, s), C7_Kept)
              /\ FinalWeight(mid, s) = C7_NewFinal(s)

\* A state lost a transition between two transitions it kept, and its final
\* weight became the weight the deleted transition brought.
C7_Witness ==
    /\ LastOp = "rm_final_epsilon"
    /\ Len(ops) = 1
    /\ \E s \in StateIds(prev) :
          /\ Len(Trs(prev, s)) = 3
          /\ C7_Kept(Trs(prev, s)[1])
          /\ C7_Deleted(Trs(prev, s)[2])
          /\ C7_Kept(Trs(prev, s)[3])
          /\ Trs(prev, s)[1] # Trs(prev, s)[3]
          /\ Trs(prev, s)[3].nextstate \in C7_F
          /\ IsFinal(prev, s)
          /\ FinalWeight(mid, s) # FinalWeight(prev, s)

(***************************************************************************)
(* C8: after push_weights(F, ReweightToInitial) succeeds, at every state s *)
(* other than the start state the plus-sum of the weights of the outgoing  *)
(* transitions of s and of the final weight of s (zero when absent) equals *)
(* one().                                                                  *)
(***************************************************************************)
OutSum(f, s) == SumWeights(Trs(f, s), 1, FinalOrZero(f, s))

C9_AddSymbolReturnsLabel ==
    sop = "add_symbol" => GetLabel(symt, sym) = Some(ret)

(***************************************************************************)
(* C10: label_to_symbol and symbol_to_label are mutual inverses after any  *)
(* sequence of new / add_symbol / add_table: get_symbol(l) = Some(s) if    *)
(* and only if get_label(s) = Some(l), for every label l and symbol s.     *)
(***************************************************************************)
C10_Bidirectional ==
    \A l \in 0 .. MaxSymbols, s \in Symbols :
        (GetSymbol(symt, l) = Some(s)) <=> (GetLabel(symt, s) = Some(l))

(***************************************************************************)
(* C11: symbol-table round trip: for every SymbolTable S made from new()   *)
(* by add_symbol calls, from_text_string(S.text()) equals S: the same      *)
(* label_to_symbol, the same symbol_to_label and the same len().           *)
(***************************************************************************)
C11_TextRoundTrip ==
    sop = "from_text_string" =>
        /\ symt.label_to_symbol = symt0.label_to_symbol
        /\ symt.symbol_to_label = symt0.symbol_to_label
        /\ SymtLen(symt) = SymtLen(symt0)

(***************************************************************************)
(* C12: in every SymbolTable made from new() by add_symbol and add_table   *)
(* calls, also when "<eps>" is added again or a table holding "<eps>" is   *)
(* added, get_symbol(0) = Some("<eps>") and get_label("<eps>") = Some(0).  *)
(***************************************************************************)
C12_EpsIsZero ==
    /\ GetSymbol(symt, 0) = Some(EPS_SYMBOL)
    /\ GetLabel(symt, EPS_SYMBOL) = Some(0)

\* "<eps>" was added again by add_symbol, and then a table was added.
C12_Witness ==
    /\ sop = "add_table"
    /\ ret > 0
    /\ sym = EPS_SYMBOL
    /\ Cardinality({l \in SymtLabels(symt) : GetSymbol(symt, l) = Some(EPS_SYMBOL)}) >= 3

(***************************************************************************)
(* C13: labels are dense: in every SymbolTable made from new() by          *)
(* add_symbol calls, the labels that have a symbol are exactly             *)
(* 0 .. len()-1, and len() is the number of symbols stored in the table,   *)
(* the number of distinct symbols symbols() yields.                        *)
(***************************************************************************)
C13_DenseLabels ==
    sop # "from_text_string" =>
        /\ SymtLabels(symt) = 0 .. (SymtLen(symt) - 1)
        /\ SymtLen(symt) = Cardinality(SymtSymbols(symt))

(***************************************************************************)
(* C14: for every ConstFst made by converting a VectorFst, fst_iter() and  *)
(* the consuming fst_into_iter() each yield one item per state in          *)
(* increasing state id; the item of state s has state_id = s, the          *)
(* transitions of tr_iter(s) in the same order, final_weight(s) and        *)
(* num_trs(s), which are those of the VectorFst.                           *)
(***************************************************************************)
C14_IterItems ==
    cst.op \in {"fst_iter", "fst_into_iter"} =>
        /\ Len(cst.res) = ConstNumStates(cst.fst)
        /\ Len(cst.res) = NumStates(fst)
        /\ \A k \in DOMAIN cst.res :
              /\ cst.res[k].state_id = k - 1
              /\ Ok(cst.res[k].trs) = TrIter(cst.fst, k - 1)
              /\ cst.res[k].trs = Trs(fst, k - 1)
              /\ cst.res[k].final_weight = ConstFinalWeight(cst.fst, k - 1)
              /\ cst.res[k].final_weight = FinalWeight(fst, k - 1)
              /\ cst.res[k].num_trs = ConstNumTrs(cst.fst, k - 1)
              /\ cst.res[k].num_trs = Len(Trs(fst, k - 1))

\* fst_iter on a ConstFst whose second state has two different transitions
\* stored after the transition of the first state.
C14_Witness ==
    /\ cst.op = "fst_iter"
    /\ Len(cst.res) >= 2
    /\ cst.res[1].num_trs = 1
    /\ cst.res[2].num_trs = 2
    /\ cst.res[2].trs[1] # cst.res[2].trs[2]
    /\ cst.res[2].trs[1] # cst.res[1].trs[1]
    /\ IsSome(cst.res[2].final_weight)

\* The same with the consuming fst_into_iter.
C14_WitnessInto ==
    /\ cst.op = "fst_into_iter"
    /\ Len(cst.res) >= 2
    /\ cst.res[1].num_trs = 1
    /\ cst.res[2].num_trs = 2
    /\ cst.res[2].trs[1] # cst.res[1].trs[1]

(***************************************************************************)
(* C15: an operation that is given a state id that does not exist fails    *)
(* with an error and leaves the FST unchanged: tr_iter(s) on a ConstFst    *)
(* returns an error when s >= num_states, and trs[pos .. pos+narcs] in     *)
(* stored order otherwise; final_weight, set_start, set_final, add_arc and *)
(* del_state report an error for such a state, not a normal value.         *)
(***************************************************************************)
C15_CheckedOps == {"final_weight", "set_start", "set_final", "add_arc", "del_state"}

C15_NoSuchState ==
    /\ call.op \in C15_CheckedOps =>
          IF StateExists(prev, call.state_id)
            THEN call.res.ok
            ELSE ~call.res.ok /\ fst = prev
    /\ cst.op = "tr_iter" =>
          IF cst.state_id < ConstNumStates(cst.fst)
            THEN /\ cst.res.ok
                 /\ cst.res.val = Trs(fst, cst.state_id)
                 /\ \A k \in DOMAIN cst.res.val :
                       cst.res.val[k] =
                           cst.fst.trs[cst.fst.states[cst.state_id + 1].pos + k]
            ELSE ~cst.res.ok

(***************************************************************************)
(* C16: a state whose final weight is present but equal to zero() is       *)
(* non-final: is_final(s) is true only when final_weight(s) is present and *)
(* different from zero(), and reverse does not treat such a state as       *)
(* final: it gives the superinitial state one transition for each state    *)
(* whose final weight is present and not zero().                           *)
(***************************************************************************)
C16_ReallyFinal(f) ==
    {s \in StateIds(f) : IsSome(FinalWeight(f, s)) /\ ~IsZero(Unwrap(FinalWeight(f, s)))}

C16_ZeroIsNonFinal ==
    /\ \A s \in StateIds(fst) : IsFinal(fst, s) => s \in C16_ReallyFinal(fst)
    /\ LastOp = "reverse" => Len(Trs(fst, 0)) = Cardinality(C16_ReallyFinal(prev))

(***************************************************************************)
(* C17: arc_sort with a comparator replaces the transitions of every state *)
(* by a permutation of them that is sorted under the comparator            *)
(* (ilabel_compare: lexicographic on (ilabel, olabel, nextstate);          *)
(* olabel_compare: on (olabel, ilabel, nextstate)), the transitions that   *)
(* compare equal keeping their order; arc_sort with the same comparator a  *)
(* second time changes nothing.                                            *)
(***************************************************************************)
C17_Key(tr) ==
    IF call.sort_type = "ilabel"
      THEN <<tr.ilabel, tr.olabel, tr.nextstate>>
      ELSE <<tr.olabel, tr.ilabel, tr.nextstate>>

C17_KeyLeq(a, b) ==
    \/ a[1] < b[1]
    \/ a[1] = b[1] /\ a[2] < b[2]
    \/ a[1] = b[1] /\ a[2] = b[2] /\ a[3] <= b[3]

\* The transitions of seq whose key is key, in their order.
C17_WithKey(seq, key) ==
    LET idx == {k \in DOMAIN seq : C17_Key(seq[k]) = key}
    IN SelectIdx(seq, 1, idx)

C17_ArcSort ==
    LastOp = "arc_sort" =>
        /\ NumStates(fst) = NumStates(prev)
        /\ fst.start = prev.start
        /\ \A s \in StateIds(fst) :
              /\ FinalWeight(fst, s) = FinalWeight(prev, s)
              /\ Len(Trs(fst, s)) = Len(Trs(prev, s))
              /\ \A t \in Range(Trs(prev, s)) \cup Range(Trs(fst, s)) :
                    /\ Count(Trs(fst, s), t) = Count(Trs(prev, s), t)
                    /\ C17_WithKey(Trs(fst, s), C17_Key(t))
                          = C17_WithKey(Trs(prev, s), C17_Key(t))
              /\ \A i, j \in DOMAIN Trs(fst, s) :
                    i < j => C17_KeyLeq(C17_Key(Trs(fst, s)[i]), C17_Key(Trs(fst, s)[j]))
        /\ Len(ops) = 2 => fst = prev

\* A state with three transitions that were not sorted, two of which compare
\* equal and differ in their weight; the sort moved them.
C17_Witness ==
    /\ ops = <<"arc_sort">>
    /\ \E s \in StateIds(fst) :
          /\ Len(Trs(prev, s)) = 3
          /\ Trs(fst, s) # Trs(prev, s)
          /\ C17_Key(Trs(prev, s)[1]) = C17_Key(Trs(prev, s)[3])
          /\ Trs(prev, s)[1].weight # Trs(prev, s)[3].weight
          /\ Trs(prev, s)[1].ilabel # Trs(prev, s)[1].olabel
          /\ C17_Key(Trs(prev, s)[2]) # C17_Key(Trs(prev, s)[1])

\* arc_sort was applied a second time.
C17_WitnessTwice ==
    /\ ops = <<"arc_sort", "arc_sort">>
    /\ orig # fst

(***************************************************************************)
(* C18: BooleanWeight is a semiring: plus is OR and times is AND; plus is  *)
(* associative and commutative with identity zero() = false; times is      *)
(* associative with identity one() = true and distributes over plus;       *)
(* zero() annihilates under times; the operators + and * give the results  *)
(* of plus and times.                                                      *)
(***************************************************************************)
C18_Laws(a, b, c) ==
    /\ BoolPlus(BoolPlus(a, b), c) = BoolPlus(a, BoolPlus(b, c))
    /\ BoolPlus(a, b) = BoolPlus(b, a)
    /\ BoolPlus(a, BoolZero) = a /\ BoolPlus(BoolZero, a) = a
    /\ BoolTimes(BoolTimes(a, b), c) = BoolTimes(a, BoolTimes(b, c))
    /\ BoolTimes(a, BoolOne) = a /\ BoolTimes(BoolOne, a) = a
    /\ BoolTimes(a, BoolPlus(b, c)) = BoolPlus(BoolTimes(a, b), BoolTimes(a, c))
    /\ BoolTimes(BoolPlus(a, b), c) = BoolPlus(BoolTimes(a, c), BoolTimes(b, c))
    /\ BoolTimes(a, BoolZero) = BoolZero /\ BoolTimes(BoolZero, a) = BoolZero

C18_BooleanSemiring ==
    /\ BoolValue(BoolZero) = FALSE
    /\ BoolValue(BoolOne) = TRUE
    /\ bw.op # "none" => C18_Laws(bw.a, bw.b, bw.c)
    /\ bw.op \in {"plus", "add"} =>
          BoolValue(bw.res) = (BoolValue(bw[bw.lhs]) \/ BoolValue(bw[bw.rhs]))
    /\ bw.op \in {"times", "mul"} =>
          BoolValue(bw.res) = (BoolValue(bw[bw.lhs]) /\ BoolValue(bw[bw.rhs]))

\* times of a true and a false weight, the third weight being true.
C18_Witness ==
    /\ bw.op = "times"
    /\ bw.a = TRUE /\ bw.b = FALSE /\ bw.c = TRUE
    /\ bw.lhs = "a" /\ bw.rhs = "b"
    /\ bw.res = FALSE

(***************************************************************************)
(* C19: push_weights first computes the potentials with                    *)
(* shortest_distance(fst, reverse), reverse being true exactly when the    *)
(* direction is ReweightToInitial, and only then calls reweight with them; *)
(* when shortest_distance returns an error (NonConvergent) push_weights    *)
(* returns that error and has not modified the FST.                        *)
(***************************************************************************)
C19_Dist == ShortestDistance(prev, ops[1] = "ReweightToInitial")

C19_PushOrder ==
    (Len(ops) = 1 /\ ops[1] \in ReweightTypes) =>
        IF C19_Dist.status # "ok"
          THEN status = C19_Dist.status /\ fst = prev
          ELSE /\ status = Reweight(prev, C19_Dist.dist, ops[1]).status
               /\ fst = Reweight(prev, C19_Dist.dist, ops[1]).fst

\* shortest_distance did not converge on an FST with a final state.
C19_Witness ==
    /\ ops = <<"ReweightToInitial">>
    /\ status = "NonConvergent"
    /\ NumFinals(prev) > 0
    /\ IsSome(prev.start)
    /\ fst = prev

(***************************************************************************)
(* C20: arcsort_cli reads the input, chooses the comparator, sorts and     *)
(* writes the output, in that order, and stops at the first failure: with  *)
(* a sort_type other than "ilabel" or "olabel" it returns an error and     *)
(* never writes path_out; path_out is written only after arc_sort has      *)
(* succeeded on an FST read from path_in.                                  *)
(***************************************************************************)
C20_Order == <<"read", "choose", "sort", "write">>

C20_CliOrder ==
    /\ Len(cli.steps) <= 4
    /\ \A k \in DOMAIN cli.steps : cli.steps[k] = C20_Order[k]
    /\ (cli.pc # "none" /\ cli.sort_type \notin {"ilabel", "olabel"}) =>
          /\ cli.out = None
          /\ cli.pc = "done" => ~cli.res.ok
          /\ "sort" \notin Range(cli.steps)
    /\ IsSome(cli.out) =>
          /\ cli.steps = C20_Order
          /\ IsSome(cli.file)
          /\ cli.sort_type = "ilabel" =>
                Unwrap(cli.out) = ArcSort(Unwrap(cli.file), "ilabel_compare")
          /\ cli.sort_type = "olabel" =>
                Unwrap(cli.out) = ArcSort(Unwrap(cli.file), "olabel_compare")
    /\ (cli.pc = "done" /\ ~cli.res.ok) =>
          /\ cli.out = None
          /\ Len(cli.steps) = 1 => ~IsSome(cli.file)
          /\ Len(cli.steps) = 2 => cli.sort_type \notin {"ilabel", "olabel"}
    /\ (cli.pc = "done" /\ cli.res.ok) => IsSome(cli.out)

\* The call with an unknown sort_type has returned, after reading an FST
\* with transitions.
C20_Witness ==
    /\ cli.pc = "done"
    /\ cli.sort_type = "nextstate"
    /\ cli.steps = <<"read", "choose">>
    /\ NumTrsTotal(Unwrap(cli.file)) >= 2
    /\ cli.out = None

\* The call has written a sorted FST that differs from the one it read.
C20_WitnessWritten ==
    /\ cli.pc = "done"
    /\ IsSome(cli.out)
    /\ cli.out # cli.file

(***************************************************************************)
(* C21: in any sequence of CacheState operations from new(), expanded() is *)
(* false until the first mark_expanded and true ever after; has_final() is *)
(* false until the first set_final_weight and true ever after, also when   *)
(* set_final_weight was given None, so that has_final() can be true while  *)
(* final_weight() is None; push_tr and reserve_trs change neither flag nor *)
(* the final weight.                                                       *)
(***************************************************************************)
C21_LastOp == IF cache.log = <<>> THEN "new" ELSE cache.log[Len(cache.log)]

C21_CacheFlags ==
    /\ Expanded(cache.st) = ("mark_expanded" \in Range(cache.log))
    /\ HasFinal(cache.st) = ("set_final_weight" \in Range(cache.log))
    /\ Expanded(cache.before) => Expanded(cache.st)
    /\ HasFinal(cache.before) => HasFinal(cache.st)
    /\ C21_LastOp \in {"push_tr", "reserve_trs"} =>
          /\ Expanded(cache.st) = Expanded(cache.before)
          /\ HasFinal(cache.st) = HasFinal(cache.before)
          /\ CacheFinalWeight(cache.st) = CacheFinalWeight(cache.before)

\* set_final_weight(None) was called, then a transition was pushed:
\* has_final() is true and final_weight() is None.
C21_Witness ==
    /\ "set_final_weight" \in Range(cache.log)
    /\ "mark_expanded" \in Range(cache.log)
    /\ C21_LastOp = "push_tr"
    /\ HasFinal(cache.st)
    /\ CacheFinalWeight(cache.st) = None
    /\ CacheNumTrs(cache.st) = 2

(***************************************************************************)
(* C22: add_fst(other) on an FST with n states adds one fresh state per    *)
(* state of other and returns the mapping i -> n + i; it adds every        *)
(* transition of other with source and nextstate remapped and labels,      *)
(* weight and per-state order unchanged; the states, transitions, final    *)
(* weights and start state the receiver had are unchanged; neither the     *)
(* start state nor the final weights of other are copied.                  *)
(***************************************************************************)
C22_AddFst ==
    LastOp = "add_fst" =>
        LET n == NumStates(prev)
            other == call.other
            mapping == call.ret.val
        IN /\ call.ret.ok
           /\ NumStates(fst) = n + NumStates(other)
           /\ DOMAIN mapping = StateIds(other)
           /\ \A i \in StateIds(other) :
                 /\ mapping[i] = n + i
                 /\ FinalWeight(fst, n + i) = None
                 /\ Len(Trs(fst, n + i)) = Len(Trs(other, i))
                 /\ \A k \in DOMAIN Trs(other, i) :
                       LET old == Trs(other, i)[k]
                       IN Trs(fst, n + i)[k] =
                            Tr(old.ilabel, old.olabel, old.weight, n + old.nextstate)
           /\ \A s \in StateIds(prev) : fst.states[s + 1] = prev.states[s + 1]
           /\ fst.start = prev.start

\* A receiver with a start state, a final state and a transition was given
\* an FST of two states with a start state, a final state and a state of two
\* distinct transitions.
C22_Witness ==
    /\ LastOp = "add_fst"
    /\ NumStates(prev) = 2
    /\ IsSome(prev.start)
    /\ NumFinals(prev) >= 1
    /\ NumTrsTotal(prev) >= 1
    /\ NumStates(call.other) = 2
    /\ IsSome(call.other.start)
    /\ NumFinals(call.other) >= 1
    /\ \E i \in StateIds(call.other) :
          /\ Len(Trs(call.other, i)) = 2
          /\ Trs(call.other, i)[1] # Trs(call.other, i)[2]
    /\ NumStates(fst) = 4

====
